---- MODULE Spec2Model ----
(***************************************************************************)
(* Model of src/generate_data/run_data_pipeline.py: the snapshot of the    *)
(* tracked parquet files, the external collector, the integrity check      *)
(* (check_file_sizes_vs_initial), the shrinkage diagnosis                  *)
(* (diagnose_shrinkage) and the delta report (calculate_job_additions and  *)
(* the summary in main).                                                   *)
(*                                                                         *)
(* A tracked file is a record whose kind is "absent" (not matched by the   *)
(* glob), "empty" (a zero-byte file: it exists, pd.read_parquet raises),   *)
(* "corrupt" (non-empty, pd.read_parquet raises) or "table", with          *)
(*   col   : which identifier column it has                                *)
(*   dtype : "str" (object column) or "int" (numeric column)               *)
(*   ids   : the identifier numbers present                                *)
(*   dup   : the identifiers (subset of ids) that occur on two rows        *)
(*   nulls : the number of rows without an identifier value                *)
(* so len(df) = |ids| + |dup| + nulls.  File sizes in bytes are left out:  *)
(* the code prints them and never branches on them.                        *)
(***************************************************************************)
EXTENDS Integers, Sequences, FiniteSets, TLC

VARIABLES files, initial_counts, pc, success, data_files, size_checks,
          files_changed, shrunken_files, diag_idx, diag_log, returns,
          reporter_invoked, job_additions, summary

vars == <<files, initial_counts, pc, success, data_files, size_checks,
          files_changed, shrunken_files, diag_idx, diag_log, returns,
          reporter_invoked, job_additions, summary>>

(* ---------------------------- bounds ----------------------------------- *)

NumPaths == 2
MaxId == 2
MaxDiagId == 11
MaxLow == 2
MaxNulls == 1
MaxChecks == 2

(* ------------------------ program constants ---------------------------- *)

ListLimit == 10
SampleSize == 5

(* ----------------------------- tables ---------------------------------- *)

Paths == 1..NumPaths

SnakeCol == "usajobs_control_number"
CamelCol == "usajobsControlNumber"
NoCol == "none"

FileState(k, c, d, i, du, n) ==
    [kind |-> k, col |-> c, dtype |-> d, ids |-> i, dup |-> du, nulls |-> n]

Absent == FileState("absent", NoCol, "str", {}, {}, 0)
Empty == FileState("empty", NoCol, "str", {}, {}, 0)
Corrupt == FileState("corrupt", NoCol, "str", {}, {}, 0)
Table(c, d, i, du, n) == FileState("table", c, d, i, du, n)

\* pd.read_parquet(file) succeeds
IsTable(s) == s.kind = "table"

\* len(df)
Rows(t) == Cardinality(t.ids) + Cardinality(t.dup) + t.nulls

\* The dtype pandas gives the identifier column: an object column of
\* strings, an int64 column, or float64 when a numeric column has nulls.
RawKind(t) == IF t.dtype = "str" THEN "s" ELSE IF t.nulls > 0 THEN "f" ELSE "i"

\* .astype(str) of one value: "123" stays, 123 -> "123", 123.0 -> "123.0"
AsStr(v) == IF v[1] = "s" THEN v
            ELSE IF v[1] = "i" THEN <<"s", v[2]>>
            ELSE IF v[1] = "f" THEN <<"sf", v[2]>>
            ELSE v

\* set(df[col].dropna().astype(str))
IdStrings(t) == {AsStr(<<RawKind(t), n>>) : n \in t.ids}

(* ------------------------- small helpers ------------------------------- *)

\* glob.glob('../../data/current_jobs_*.parquet') over the working tree
Glob(fs) == {p \in Paths : fs[p].kind # "absent"}

\* initial_counts.get(file, 0)
GetCount(ic, f) == IF f \in DOMAIN ic THEN ic[f] ELSE 0

Min(a, b) == IF a < b THEN a ELSE b

\* sorted(keys): file names current_jobs_<year>.parquet sort by year
RECURSIVE SortedSeq(_)
SortedSeq(S) == IF S = {} THEN <<>>
                ELSE LET m == CHOOSE x \in S : \A y \in S : x <= y
                     IN <<m>> \o SortedSeq(S \ {m})

(* --------------------- record_initial_job_counts ----------------------- *)

\* one entry of the snapshot: len(df), or 0 when read_parquet raises
InitialCountOf(s) == IF IsTable(s) THEN Rows(s) ELSE 0

RecordInitialJobCounts(fs) == [p \in Glob(fs) |-> InitialCountOf(fs[p])]

(* -------------------------- diagnose_shrinkage ------------------------- *)

NoIds == {}

DiagResult(o, cc, jd, rem, add, m, lids, lrows, tot, smp) ==
    [outcome |-> o, current_count |-> cc, job_difference |-> jd,
     removed |-> rem, added |-> add, mode |-> m,
     listed_ids |-> lids, listed_rows |-> lrows,
     total |-> tot, sample |-> smp]

\* missing_ids = old_ids - current_ids
MissingIds(old_ids, current_ids) == old_ids \ current_ids

\* slip: the current identifiers taken whole as the new ones
NewIdsAll(old_ids, current_ids) == current_ids

\* new_ids = current_ids - old_ids
NewIds(old_ids, current_ids) == current_ids \ old_ids

\* list(missing_ids)[:k]: the first k of a set in its iteration order,
\* which the language leaves unspecified: any k members (all, if fewer).
FirstOf(S, k) == {T \in SUBSET S : Cardinality(T) = Min(k, Cardinality(S))}

\* old_df[old_df[col].isin(sample_missing)]: the identifier numbers of the
\* historical rows whose raw column value is a member of the list of strings
MatchedIds(old, sample_missing) ==
    {n \in old.ids : <<RawKind(old), n>> \in sample_missing}

\* number of rows iterated by missing_jobs.iterrows()
MatchedRows(old, sample_missing) ==
    Cardinality(MatchedIds(old, sample_missing))
      + Cardinality(MatchedIds(old, sample_missing) \cap old.dup)

\* which branch of "if missing_ids and len(missing_ids) <= 10 / elif missing_ids"
ReportMode(missing) == IF missing # {} /\ Cardinality(missing) <= ListLimit THEN "list"
                       ELSE IF missing # {} THEN "sample"
                       ELSE "none"

\* lines 192-217, once both identifier sets are known
DiffResults(cur, initial_count, old) ==
    LET old_ids == IdStrings(old)
        current_ids == IdStrings(cur)
        missing == MissingIds(old_ids, current_ids)
        new == NewIds(old_ids, current_ids)
        cc == Rows(cur)
        m == ReportMode(missing)
    IN IF m = "list"
       THEN {DiagResult("diff", cc, cc - initial_count, missing, new, m,
                        MatchedIds(old, missing), MatchedRows(old, missing), 0, NoIds)}
       ELSE IF m = "sample"
       THEN {DiagResult("diff", cc, cc - initial_count, missing, new, m,
                        NoIds, 0, Cardinality(missing), smp) :
                 smp \in FirstOf(missing, SampleSize)}
       ELSE {DiagResult("diff", cc, cc - initial_count, missing, new, m,
                        NoIds, 0, 0, NoIds)}

\* result.returncode == 0 and result.stdout: git show found the path at HEAD
\* and printed at least one byte
HistoryLoaded(h) == h.kind # "absent" /\ h.kind # "empty"

\* what one call of diagnose_shrinkage(file_path, initial_count) reports,
\* given the working-tree file and the content of `git show HEAD:<path>`
DiagnoseResults(cur, initial_count, h) ==
    IF ~IsTable(cur)
    THEN {DiagResult("error", 0, 0, NoIds, NoIds, "none", NoIds, 0, 0, NoIds)}
    ELSE LET cc == Rows(cur)
             plain(o) == {DiagResult(o, cc, cc - initial_count, NoIds, NoIds,
                                     "none", NoIds, 0, 0, NoIds)}
         IN IF ~HistoryLoaded(h) THEN plain("unavailable")
            ELSE IF ~IsTable(h) THEN plain("error")
            ELSE IF h.col = SnakeCol
                 THEN IF cur.col = SnakeCol THEN DiffResults(cur, initial_count, h)
                      ELSE plain("error")
            ELSE IF h.col = CamelCol
                 THEN IF cur.col = CamelCol THEN DiffResults(cur, initial_count, h)
                      ELSE plain("error")
            ELSE plain("no_column")

(* --------------------- check_file_sizes_vs_initial --------------------- *)

\* count_decreased = current_count < initial_count
CountDecreased(current_count, initial_count) == current_count < initial_count

\* slip: >= for >
JobsGrewOrSame(current_count, initial_count) == current_count - initial_count >= 0

\* elif jobs_change > 0
JobsGrew(current_count, initial_count) == current_count - initial_count > 0

\* slip: a read error counted as a passed check
ReadErrorCheckPass == TRUE

\* the value appended to size_checks in the except branch
ReadErrorCheck == FALSE

\* slip: files_changed overwritten by each file in turn
FilesChangedLast(prev, grew) == grew

\* files_changed after one more file: it is set to True and never reset
FilesChangedUpdate(prev, grew) == prev \/ grew

\* slip: the append outside the count_decreased branch
ShrunkenAppendAlways(list, f, decreased) == Append(list, f)

\* shrunken_files after one more file
ShrunkenAppend(list, f, decreased) == IF decreased THEN Append(list, f) ELSE list

\* slip: any() for all()
AnyCheck(sc) == \E i \in 1..Len(sc) : sc[i]

\* all(size_checks)
AllChecks(sc) == \A i \in 1..Len(sc) : sc[i]

\* the pair returned at lines 300-313
ReturnValue(sc, changed) == IF ~AllChecks(sc) THEN [ok |-> FALSE, changed |-> FALSE]
                            ELSE [ok |-> TRUE, changed |-> changed]

(* ------------------------------ main ----------------------------------- *)

\* slip: main returning when the collector failed
AfterCollectorCancel(ok) == IF ok THEN "check" ELSE "done"

\* where main goes once run_command has returned (lines 333-342)
AfterCollector(ok) == "check"

\* slip: the second early return left out
ReportGateOkOnly(files_ok, changed) == files_ok

\* lines 343-353: the reporter runs only past both early returns
ReportGate(files_ok, changed) == files_ok /\ changed

\* added = current_count - initial_count
Added(current_count, initial_count) == current_count - initial_count

\* one entry of job_additions (0 in the except branch)
JobAdditionOf(s, initial_count) == IF IsTable(s) THEN Added(Rows(s), initial_count) ELSE 0

\* the number printed on a summary line: "{count} jobs added" or "0 jobs added"
SummaryCount(count) == IF count > 0 THEN count ELSE 0

(* ------------------------- input universes ----------------------------- *)

\* the file states of the pipeline runs: any set of identifiers up to MaxId
PipeStates == {Absent, Empty, Corrupt}
                \cup {Table(SnakeCol, "str", i, {}, 0) : i \in SUBSET (1..MaxId)}

PipeMaps == [Paths -> PipeStates]

\* the file states of the diagnosis runs: runs of identifiers a..b, in either
\* column naming and dtype, with at most one of: rows without identifier,
\* a duplicated identifier; and tables without identifier column
DiagIdSets == {a..b : a \in 1..MaxLow, b \in 0..MaxDiagId}

LowestOf(S) == {x \in S : \A y \in S : x <= y}

DiagStates ==
    {Absent, Empty, Corrupt}
      \cup {Table(c, d, i, {}, 0) :
               c \in {SnakeCol, CamelCol}, d \in {"str", "int"}, i \in DiagIdSets}
      \cup {Table(SnakeCol, d, i, {}, n) :
               d \in {"str", "int"}, i \in DiagIdSets, n \in 1..MaxNulls}
      \cup {Table(SnakeCol, "str", i, LowestOf(i), 0) : i \in DiagIdSets \ {{}}}
      \cup {Table(NoCol, "str", {}, {}, n) : n \in 0..MaxNulls}

\* only the first tracked file exists in the diagnosis runs
DiagMaps == {fm \in [Paths -> DiagStates] : \A p \in Paths \ {1} : fm[p] = Absent}

(* ------------------------------ actions -------------------------------- *)

Init(FM) ==
    /\ files \in FM
    /\ initial_counts = <<>>
    /\ pc = "start"
    /\ success = "none"
    /\ data_files = {}
    /\ size_checks = <<>>
    /\ files_changed = FALSE
    /\ shrunken_files = <<>>
    /\ diag_idx = 1
    /\ diag_log = <<>>
    /\ returns = <<>>
    /\ reporter_invoked = FALSE
    /\ job_additions = <<>>
    /\ summary = <<>>

\* main, lines 320-321
RecordInitial ==
    /\ pc = "start"
    /\ initial_counts' = RecordInitialJobCounts(files)
    /\ pc' = "collect"
    /\ UNCHANGED <<files, success, data_files, size_checks, files_changed,
                   shrunken_files, diag_idx, diag_log, returns,
                   reporter_invoked, job_additions, summary>>

\* main, lines 330-338: the external collector rewrites the data directory
\* and run_command reports its exit status
RunCollector(FM) ==
    /\ pc = "collect"
    /\ \E nf \in FM, ok \in BOOLEAN :
          /\ files' = nf
          /\ success' = IF ok THEN "ok" ELSE "failed"
          /\ pc' = AfterCollector(ok)
    /\ UNCHANGED <<initial_counts, data_files, size_checks, files_changed,
                   shrunken_files, diag_idx, diag_log, returns,
                   reporter_invoked, job_additions, summary>>

\* check_file_sizes_vs_initial, lines 257-261
CheckStart ==
    /\ pc = "check"
    /\ data_files' = Glob(files)
    /\ size_checks' = <<>>
    /\ files_changed' = FALSE
    /\ shrunken_files' = <<>>
    /\ diag_idx' = 1
    /\ pc' = IF Glob(files) = {} THEN "diagnose" ELSE "loop"
    /\ UNCHANGED <<files, initial_counts, success, diag_log, returns,
                   reporter_invoked, job_additions, summary>>

\* one iteration of the loop at lines 263-292; glob order is arbitrary
CheckFile(f) ==
    /\ pc = "loop"
    /\ f \in data_files
    /\ LET s == files[f]
           current_count == Rows(s)
           initial_count == GetCount(initial_counts, f)
           dec == CountDecreased(current_count, initial_count)
       IN IF IsTable(s)
          THEN /\ size_checks' = Append(size_checks, ~dec)
               /\ shrunken_files' = ShrunkenAppend(shrunken_files, f, dec)
               /\ files_changed' =
                     IF dec THEN files_changed
                     ELSE FilesChangedUpdate(files_changed,
                                             JobsGrew(current_count, initial_count))
          ELSE /\ size_checks' = Append(size_checks, ReadErrorCheck)
               /\ UNCHANGED <<shrunken_files, files_changed>>
    /\ data_files' = data_files \ {f}
    /\ pc' = IF data_files' = {} THEN "diagnose" ELSE "loop"
    /\ UNCHANGED <<files, initial_counts, success, diag_idx, diag_log, returns,
                   reporter_invoked, job_additions, summary>>

\* one iteration of the loop at lines 295-298; H is what git may hold
DiagnoseNext(H) ==
    /\ pc = "diagnose"
    /\ diag_idx <= Len(shrunken_files)
    /\ LET f == shrunken_files[diag_idx]
           initial_count == GetCount(initial_counts, f)
       IN \E h \in H :
            \E r \in DiagnoseResults(files[f], initial_count, h) :
               diag_log' = Append(diag_log,
                                  [file |-> f, initial_count |-> initial_count,
                                   hist |-> h, result |-> r])
    /\ diag_idx' = diag_idx + 1
    /\ UNCHANGED <<files, initial_counts, pc, success, data_files, size_checks,
                   files_changed, shrunken_files, returns,
                   reporter_invoked, job_additions, summary>>

\* lines 300-313
CheckReturn ==
    /\ pc = "diagnose"
    /\ diag_idx > Len(shrunken_files)
    /\ returns' = Append(returns, ReturnValue(size_checks, files_changed))
    /\ pc' = "checked"
    /\ UNCHANGED <<files, initial_counts, success, data_files, size_checks,
                   files_changed, shrunken_files, diag_idx, diag_log,
                   reporter_invoked, job_additions, summary>>

\* main, lines 342-350
MainGate ==
    /\ pc = "checked"
    /\ LET v == returns[Len(returns)]
       IN pc' = IF ReportGate(v.ok, v.changed) THEN "calc" ELSE "done"
    /\ UNCHANGED <<files, initial_counts, success, data_files, size_checks,
                   files_changed, shrunken_files, diag_idx, diag_log, returns,
                   reporter_invoked, job_additions, summary>>

\* calculate_job_additions, lines 225-251
CalculateJobAdditions ==
    /\ pc = "calc"
    /\ job_additions' = [p \in Glob(files) |->
                            JobAdditionOf(files[p], GetCount(initial_counts, p))]
    /\ reporter_invoked' = TRUE
    /\ pc' = "summary"
    /\ UNCHANGED <<files, initial_counts, success, data_files, size_checks,
                   files_changed, shrunken_files, diag_idx, diag_log, returns,
                   summary>>

\* main, lines 361-370
Summary ==
    /\ pc = "summary"
    /\ LET keys == SortedSeq(DOMAIN job_additions)
       IN summary' = [i \in 1..Len(keys) |->
                         <<keys[i], SummaryCount(job_additions[keys[i]])>>]
    /\ pc' = "done"
    /\ UNCHANGED <<files, initial_counts, success, data_files, size_checks,
                   files_changed, shrunken_files, diag_idx, diag_log, returns,
                   reporter_invoked, job_additions>>

\* a second call of check_file_sizes_vs_initial with nothing run in between
Recheck ==
    /\ pc = "checked"
    /\ Len(returns) < MaxChecks
    /\ pc' = "check"
    /\ UNCHANGED <<files, initial_counts, success, data_files, size_checks,
                   files_changed, shrunken_files, diag_idx, diag_log, returns,
                   reporter_invoked, job_additions, summary>>

(* --------------------------- specifications ---------------------------- *)

PipeInit == Init(PipeMaps)

Next ==
    \/ RecordInitial
    \/ RunCollector(PipeMaps)
    \/ CheckStart
    \/ \E f \in Paths : CheckFile(f)
    \/ DiagnoseNext(PipeStates)
    \/ CheckReturn
    \/ MainGate
    \/ CalculateJobAdditions
    \/ Summary

\* one run of main
Spec == PipeInit /\ [][Next]_vars

\* one run of main in which the integrity check may be called again, in a
\* repository whose HEAD holds none of the tracked files
NoHistory == {Absent}

RecheckNext ==
    \/ RecordInitial
    \/ RunCollector(PipeMaps)
    \/ CheckStart
    \/ \E f \in Paths : CheckFile(f)
    \/ DiagnoseNext(NoHistory)
    \/ CheckReturn
    \/ Recheck
    \/ MainGate
    \/ CalculateJobAdditions
    \/ Summary

RecheckSpec == PipeInit /\ [][RecheckNext]_vars

\* one run of main over one tracked file with many identifiers
DiagInit == Init(DiagMaps)

DiagNext ==
    \/ RecordInitial
    \/ RunCollector(DiagMaps)
    \/ CheckStart
    \/ \E f \in Paths : CheckFile(f)
    \/ DiagnoseNext(DiagStates)
    \/ CheckReturn
    \/ MainGate
    \/ CalculateJobAdditions
    \/ Summary

DiagSpec == DiagInit /\ [][DiagNext]_vars

(* ----------------------- vocabulary of the claims ----------------------- *)

\* the tracked files as they stand (after the collector: nothing else writes)
LossFiles == {p \in Glob(files) :
                 IsTable(files[p]) /\ Rows(files[p]) < GetCount(initial_counts, p)}

GrownFiles == {p \in Glob(files) :
                  IsTable(files[p]) /\ Rows(files[p]) > GetCount(initial_counts, p)}

UnreadableFiles == {p \in Glob(files) : ~IsTable(files[p])}

Fail == [ok |-> FALSE, changed |-> FALSE]
Pass(c) == [ok |-> TRUE, changed |-> c]

LastReturn == returns[Len(returns)]

\* identifier column present, no missing values, no identifier twice
Complete(t) == IsTable(t) /\ t.col # NoCol /\ t.nulls = 0 /\ t.dup = {}

Numbers(idstrings) == {x[2] : x \in idstrings}

Diffs == {i \in 1..Len(diag_log) : diag_log[i].result.outcome = "diff"}

(* -------------------------------- C1 ----------------------------------- *)

\* C1: whenever some enumerated file is loaded with fewer rows than its
\* snapshot count, every verdict returned is ok = false, changed = false,
\* whatever the other files are and in whatever order they were processed.
C1_ZeroTolerance ==
    \A i \in 1..Len(returns) : LossFiles # {} => returns[i] = Fail

\* one shrunken file next to a grown one, checked
C1_Witness == /\ Len(returns) = 1
              /\ LossFiles # {}
              /\ GrownFiles # {}

(* -------------------------------- C2 ----------------------------------- *)

\* C2: every path snapshotted with a positive count that ends the update with
\* fewer records, the deleted file included, makes the verdict ok = false and
\* keeps the reporter from running.
C2_DestroyedDetected ==
    \A i \in 1..Len(returns) :
       \A p \in DOMAIN initial_counts :
          (/\ initial_counts[p] > 0
           /\ \/ files[p].kind = "absent"
              \/ IsTable(files[p]) /\ Rows(files[p]) < initial_counts[p])
          => (~returns[i].ok /\ ~reporter_invoked)

(* -------------------------------- C3 ----------------------------------- *)

\* C3: when every enumerated file is loaded with at least its snapshot count
\* (0 for a path missing from the snapshot), the verdict is ok = true and
\* changed is true exactly when some file grew.
C3_PassAndChanged ==
    \A i \in 1..Len(returns) :
       (UnreadableFiles = {} /\ LossFiles = {})
          => returns[i] = Pass(GrownFiles # {})

\* a pass with growth in one file and none in another
C3_Witness == /\ Len(returns) = 1
              /\ UnreadableFiles = {} /\ LossFiles = {}
              /\ GrownFiles # {}
              /\ Glob(files) \ GrownFiles # {}

(* -------------------------------- C4 ----------------------------------- *)

\* the verdict computed from the files of S alone
VerdictOver(S) == IF LossFiles \cap S # {} THEN Fail
                  ELSE Pass(GrownFiles \cap S # {})

\* C4 as stated: a file that cannot be loaded leaves the verdict what the
\* remaining files make it, and only a loss gives ok = false.
C4_ReadErrorNeutral ==
    \A i \in 1..Len(returns) :
       /\ returns[i] = VerdictOver(Glob(files) \ UnreadableFiles)
       /\ (~returns[i].ok => LossFiles # {})

\* C4 amended: a file that cannot be loaded at check time is a failed check:
\* the verdict is then ok = false, changed = false whatever the remaining
\* files are, and ok = false exactly when some file is lost or unreadable.
C4_ReadErrorFails ==
    \A i \in 1..Len(returns) :
       /\ (UnreadableFiles # {} => returns[i] = Fail)
       /\ (~returns[i].ok <=> (LossFiles \cup UnreadableFiles # {}))

\* an unreadable file and no loss at all, checked
C4_Witness == /\ Len(returns) = 1
              /\ UnreadableFiles # {}
              /\ LossFiles = {}
              /\ GrownFiles # {}

(* -------------------------------- C5 ----------------------------------- *)

ClosedVerdict == IF LossFiles \cup UnreadableFiles # {} THEN Fail
                 ELSE Pass(GrownFiles # {})

PcOrder == {<<"start", "collect">>, <<"collect", "check">>,
            <<"check", "loop">>, <<"check", "diagnose">>,
            <<"loop", "loop">>, <<"loop", "diagnose">>,
            <<"diagnose", "diagnose">>, <<"diagnose", "checked">>,
            <<"checked", "calc">>, <<"checked", "done">>,
            <<"calc", "summary">>, <<"summary", "done">>}

\* C5: every step follows the order snapshot, collector, check, diagnosis or
\* report; the snapshot is the one taken before the collector; the step after
\* the collector enters the check whether it succeeded or failed; and the
\* verdict returned is the function of snapshot and files, not of success.
C5_OrderNoCancel ==
    [][ /\ <<pc, pc'>> \in PcOrder
        /\ (pc' = "collect" => initial_counts' = RecordInitialJobCounts(files'))
        /\ (pc = "collect" => (pc' = "check" /\ success' \in {"ok", "failed"}
                               /\ initial_counts' = initial_counts))
        /\ (pc' = "checked" => (returns' = <<ClosedVerdict'>>
                                /\ initial_counts' = initial_counts
                                /\ files' = files))
        /\ (pc' = "done" => Len(returns') = 1) ]_vars

\* a run whose collector failed and which was checked all the same
C5_Witness == /\ pc = "done"
              /\ success = "failed"
              /\ returns = <<Pass(TRUE)>>

(* -------------------------------- C6 ----------------------------------- *)

\* C6 as stated: a second check with no collector run in between returns
\* changed = false.
C6_SecondUnchanged ==
    \A i \in 2..Len(returns) : returns[i].changed = FALSE

\* C6 amended: a second check with no collector run in between returns the
\* verdict of the first one (changed = false only if it was false before);
\* the check does not touch the snapshot.
C6_SameVerdict ==
    \A i \in 2..Len(returns) : returns[i] = returns[1]

\* checked twice, the first time with changed = true
C6_Witness == /\ Len(returns) = 2
              /\ returns[1] = Pass(TRUE)
              /\ Cardinality(Glob(files)) > 1

(* -------------------------------- C7 ----------------------------------- *)

\* C7: the reporter runs only after a verdict ok = true, changed = true; it
\* then lists every tracked file, by file name, with
\* added = currentCount - initialCount >= 0, the zeros included.
C7_ReporterGate ==
    /\ (pc \in {"calc", "summary"} \/ reporter_invoked)
          => (returns # <<>> /\ LastReturn = Pass(TRUE))
    /\ reporter_invoked =>
          /\ DOMAIN job_additions = Glob(files)
          /\ \A p \in Glob(files) :
                /\ job_additions[p] = Rows(files[p]) - GetCount(initial_counts, p)
                /\ job_additions[p] >= 0
    /\ (pc = "done" /\ reporter_invoked) =>
          /\ Len(summary) = Cardinality(Glob(files))
          /\ \A i \in 1..Len(summary) :
                /\ summary[i][1] \in Glob(files)
                /\ summary[i][2] = job_additions[summary[i][1]]
                /\ \A j \in 1..Len(summary) : i < j => summary[i][1] < summary[j][1]
    /\ (pc = "done" /\ LastReturn # Pass(TRUE)) => (~reporter_invoked /\ summary = <<>>)

\* a finished report listing a file that grew and a file that did not
C7_Witness == /\ pc = "done"
              /\ reporter_invoked
              /\ \E p, q \in Glob(files) : job_additions[p] > 0 /\ job_additions[q] = 0

(* -------------------------------- C8 ----------------------------------- *)

\* C8 as stated: the two sides of a computed difference are disjoint and,
\* with complete identifier columns, |added| - |removed| equals
\* currentCount - initialCount of the snapshot.
C8_DiffMatchesSnapshot ==
    \A i \in Diffs :
       LET e == diag_log[i] IN
       /\ e.result.removed \cap e.result.added = {}
       /\ (Complete(files[e.file]) /\ Complete(e.hist))
             => Cardinality(e.result.added) - Cardinality(e.result.removed)
                   = e.result.current_count - e.initial_count

\* C8 amended: the two sides of a computed difference are disjoint and, with
\* identifier columns that are present, without missing values and without
\* repeated identifiers in both versions, |added| - |removed| equals
\* currentCount minus the row count of the last committed version (which is
\* the snapshot count only if the file was as committed when the run began).
C8_DiffMatchesHistory ==
    \A i \in Diffs :
       LET e == diag_log[i] IN
       /\ e.result.removed \cap e.result.added = {}
       /\ (Complete(files[e.file]) /\ Complete(e.hist))
             => Cardinality(e.result.added) - Cardinality(e.result.removed)
                   = e.result.current_count - Rows(e.hist)

\* a difference over complete columns with identifiers removed and added,
\* the committed version having another row count than the snapshot
C8_Witness ==
    \E i \in Diffs :
       LET e == diag_log[i] IN
       /\ Complete(files[e.file]) /\ Complete(e.hist)
       /\ e.result.removed # {} /\ e.result.added # {}
       /\ Rows(e.hist) # e.initial_count

(* -------------------------------- C9 ----------------------------------- *)

\* C9: once the check has returned, diagnose_shrinkage has run exactly once
\* for each file classified as loss and for no other file, whatever each
\* diagnosis came to (an error or an unavailable history included), and a
\* verdict that follows any diagnosis is ok = false.
C9_DiagnosisIsolated ==
    pc \in {"checked", "calc", "summary", "done"} =>
       /\ Len(diag_log) = Cardinality(LossFiles)
       /\ {diag_log[i].file : i \in 1..Len(diag_log)} = LossFiles
       /\ \A i \in 1..Len(diag_log) :
             diag_log[i].initial_count = GetCount(initial_counts, diag_log[i].file)
       /\ (diag_log # <<>> => LastReturn = Fail)

\* two shrunken files: the first diagnosis fails, the second is carried out
C9_Witness == /\ pc = "done"
              /\ Len(diag_log) = 2
              /\ diag_log[1].result.outcome = "error"
              /\ diag_log[2].result.outcome = "diff"
              /\ returns = <<Fail>>

(* -------------------------------- C10 ---------------------------------- *)

\* C10: a computed difference with 1 to 10 removed identifiers lists one
\* historical row for each removed identifier and for no other (the committed
\* version holding no identifier twice); with more than 10 it reports the
\* total and a sample of exactly 5 of the removed identifiers.
C10_BoundedOutput ==
    \A i \in Diffs :
       LET e == diag_log[i]
           r == e.result
           k == Cardinality(r.removed)
       IN /\ (1 <= k /\ k <= ListLimit /\ e.hist.dup = {}) =>
                /\ r.mode = "list"
                /\ r.listed_ids = Numbers(r.removed)
                /\ r.listed_rows = k
          /\ (k > ListLimit) =>
                /\ r.mode = "sample"
                /\ r.total = k
                /\ Cardinality(r.sample) = SampleSize
                /\ r.sample \subseteq r.removed

====
